---- MODULE Spec2Model ----
(***************************************************************************)
(* compute_index of qiime/index.py: a Python generator that filters a      *)
(* biom table on the observation axis into an "increased" and a            *)
(* "decreased" table and yields, per sample, log(inc_count / dec_count).    *)
(*                                                                         *)
(* A generator's body does not run when the function is called: the call   *)
(* only creates the generator object (pc = "created").  The first advance  *)
(* runs lines 45-59 and the loop up to the first yield; every later        *)
(* advance resumes after the yield.                                        *)
(*                                                                         *)
(* A score is kept exactly: log is injective on the positive reals, so     *)
(* log(p / q) is represented by the fraction p / q in lowest terms,        *)
(* log(0) by NegInf and nan by NaN (numpy.nan is one object, so two nan    *)
(* entries of the same sample compare equal as tuples).                    *)
(***************************************************************************)
EXTENDS Integers, Sequences, FiniteSets, TLC

\* ---- bounds of the model -------------------------------------------------
NumObs == 2
NumSamples == 2
MaxAbund == 1
NumTokens == 2

Obs == 1..NumObs
Samples == 1..NumSamples
Tokens == 1..NumTokens

None == "None"
\* metadata of an observation: a dict without `key`, or one that maps `key`
\* to a collection of tokens
NoKey == [has |-> FALSE]
WithKey(v) == [has |-> TRUE, val |-> v]
Metadata == {NoKey} \cup {WithKey(v) : v \in SUBSET Tokens}
NaN == [kind |-> "nan"]
NegInf == [kind |-> "neginf"]

VARIABLES
    table,          \* the biom table passed to compute_index
    increased,      \* the `increased` argument
    decreased,      \* the `decreased` argument
    pc,             \* position of the generator
    locals,         \* the generator's frame: the locals bound so far
                    \* (inc_t, dec_t, ids_in_common), by name
    todo,           \* identifiers the for loop of line 61 has not visited
    out,            \* the entries yielded to the consumer by this call
    err,            \* the exception raised to the consumer, or None
    prev            \* <<entries of the last fully consumed earlier call>>,
                    \* <<>> when there is none

vars == <<table, increased, decreased, pc, locals, todo, out, err, prev>>

\* ---- the biom table operations compute_index uses -------------------------
\* line 46: raise KeyError("%s is not present" % key)
MissingKeyError == "KeyError: key is not present"

\* lines 48, 49: the exception md[key] raises inside a filter predicate
PredicateError == "PredicateError: md[key]"

\* line 54
EmptyIncreasedError == "ValueError: None of the increased items were found"

\* line 57
EmptyDecreasedError == "ValueError: None of the decreased items were found"

RECURSIVE SumOver(_, _)
SumOver(f, S) ==
    IF S = {} THEN 0
    ELSE LET x == CHOOSE y \in S : TRUE IN f[x] + SumOver(f, S \ {x})

RECURSIVE Gcd(_, _)
Gcd(a, b) == IF b = 0 THEN a ELSE Gcd(b, a % b)

\* table.metadata(axis='observation')[0]: the metadata of the first row
FirstMetadata(t) == t.md[CHOOSE o \in t.obs : \A p \in t.obs : o <= p]

KeyCheckSkipped(t) == TRUE

\* line 45: key in table.metadata(axis='observation')[0]
KeyInFirstMetadata(t) == FirstMetadata(t) # NoKey

\* lines 48, 49: md[key] fails on an observation without the key
PredicateRaises(t) == \E o \in t.obs : t.md[o] = NoKey

\* line 48: inc_f = lambda v, i, md: set(md[key]) & increased
inc_f(md) == (md.val \cap increased) # {}

\* line 49: dec_f = lambda v, i, md: set(md[key]) & decreased
dec_f(md) == (md.val \cap decreased) # {}

FilterDroppingZeroSamples(t, keep, inplace) ==
    LET r == [obs |-> keep,
              samples |-> {s \in t.samples : \E o \in keep : t.data[o][s] # 0},
              data |-> t.data, md |-> t.md]
    IN [self |-> IF inplace THEN r ELSE t, ret |-> r]

\* Table.filter on the observation axis: the rows in `keep` stay, the
\* sample axis is untouched; inplace decides whether self is modified.
FilterObservations(t, keep, inplace) ==
    LET r == [obs |-> keep, samples |-> t.samples, data |-> t.data,
              md |-> t.md]
    IN [self |-> IF inplace THEN r ELSE t, ret |-> r]

IncFilterInplace(t) ==
    FilterObservations(t, {o \in t.obs : inc_f(t.md[o])}, TRUE)

\* line 50: table.filter(inc_f, axis='observation', inplace=False)
IncFilter(t) ==
    FilterObservations(t, {o \in t.obs : inc_f(t.md[o])}, FALSE)

DecFilterExclusive(t) ==
    FilterObservations(t, {o \in t.obs : dec_f(t.md[o]) /\ ~inc_f(t.md[o])},
                       FALSE)

\* line 51: table.filter(dec_f, axis='observation', inplace=False)
DecFilter(t) ==
    FilterObservations(t, {o \in t.obs : dec_f(t.md[o])}, FALSE)

IsEmptyColumnsOnly(t) == t.samples = {}

\* Table.is_empty: no rows or no columns
is_empty(t) == t.obs = {} \/ t.samples = {}

\* line 59: set(inc_t.ids()) & set(dec_t.ids())
IdsInCommon(a, b) == a.samples \cap b.samples

\* lines 62, 63: t.data(id_, dense=False).sum()
ColumnSum(t, id) == SumOver([o \in t.obs |-> t.data[o][id]], t.obs)

LogInverted(inc_count, dec_count) ==
    IF inc_count = 0 THEN NegInf
    ELSE LET g == Gcd(inc_count, dec_count)
         IN [kind |-> "ln", num |-> dec_count \div g,
             den |-> inc_count \div g]

\* line 68: log(inc_count / dec_count), dec_count # 0
Log(inc_count, dec_count) ==
    IF inc_count = 0 THEN NegInf
    ELSE LET g == Gcd(inc_count, dec_count)
         IN [kind |-> "ln", num |-> inc_count \div g,
             den |-> dec_count \div g]

ScoreBothZero(inc_count, dec_count) ==
    IF dec_count = 0 /\ inc_count = 0 THEN NaN
    ELSE IF dec_count = 0 THEN [kind |-> "inf"]
    ELSE Log(inc_count, dec_count)

\* lines 65-68
Score(inc_count, dec_count) ==
    IF dec_count = 0 THEN NaN ELSE Log(inc_count, dec_count)

Range(s) == {s[i] : i \in 1..Len(s)}

\* inc_count is not reset per sample: it keeps the counts of the samples
\* already yielded
EntryAccumulating(it, dt, id) ==
    LET seen == {e.id : e \in Range(out)} \cup {id}
        acc == SumOver([s \in seen |-> ColumnSum(it, s)], seen)
    IN [id |-> id, score |-> Score(acc, ColumnSum(dt, id))]

\* lines 62-68: the entry yielded for id_
Entry(it, dt, id) ==
    [id |-> id, score |-> Score(ColumnSum(it, id), ColumnSum(dt, id))]

\* ---- the state machine ---------------------------------------------------
Tables ==
    {[obs |-> Obs, samples |-> Samples, data |-> d, md |-> m] :
        d \in [Obs -> [Samples -> 0..MaxAbund]],
        m \in [Obs -> Metadata]}

Init ==
    /\ table \in Tables
    /\ increased \in SUBSET Tokens
    /\ decreased \in SUBSET Tokens
    /\ pc = "idle"
    /\ locals = <<>>
    /\ todo = {}
    /\ out = <<>>
    /\ err = None
    /\ prev = <<>>

\* compute_index as an ordinary function returning an iterator: lines 45-59
\* run at the call
CallEager ==
    /\ pc \in {"idle", "done", "raised", "closed"}
    /\ prev' = IF pc = "done" THEN <<out>> ELSE prev
    /\ todo' = {}
    /\ out' = <<>>
    /\ UNCHANGED <<table, increased, decreased>>
    /\ IF ~KeyInFirstMetadata(table)
       THEN pc' = "raised" /\ err' = MissingKeyError /\ locals' = <<>>
       ELSE IF PredicateRaises(table)
       THEN pc' = "raised" /\ err' = PredicateError /\ locals' = <<>>
       ELSE LET it == IncFilter(table).ret
                dt == DecFilter(table).ret
            IN /\ locals' = [inc_t |-> it, dec_t |-> dt,
                             ids_in_common |-> IdsInCommon(it, dt)]
               /\ err' = IF is_empty(it) THEN EmptyIncreasedError
                         ELSE IF is_empty(dt) THEN EmptyDecreasedError
                         ELSE None
               /\ pc' = IF is_empty(it) \/ is_empty(dt) THEN "raised"
                        ELSE "created"

\* compute_index(table, increased, decreased, key): creates the generator
Call ==
    /\ pc \in {"idle", "done", "raised", "closed"}
    /\ pc' = "created"
    /\ prev' = IF pc = "done" THEN <<out>> ELSE prev
    /\ locals' = <<>>
    /\ todo' = {}
    /\ out' = <<>>
    /\ err' = None
    /\ UNCHANGED <<table, increased, decreased>>

Raise(e) ==
    /\ pc' = "raised"
    /\ err' = e
    /\ UNCHANGED <<todo, out>>

\* the emptiness of the decreased group is found per sample, in the loop
LoopStepRaising(it, dt, ids) ==
    IF ids = {}
    THEN /\ pc' = "done"
         /\ UNCHANGED <<todo, out, err>>
    ELSE \E id \in ids :
            IF ColumnSum(dt, id) = 0
            THEN Raise(EmptyDecreasedError)
            ELSE /\ out' = Append(out, Entry(it, dt, id))
                 /\ todo' = ids \ {id}
                 /\ pc' = "suspended"
                 /\ UNCHANGED err

\* lines 61-68: one pass of the loop up to its yield, or the end of the loop
LoopStep(it, dt, ids) ==
    IF ids = {}
    THEN /\ pc' = "done"
         /\ UNCHANGED <<todo, out, err>>
    ELSE \E id \in ids :
            /\ out' = Append(out, Entry(it, dt, id))
            /\ todo' = ids \ {id}
            /\ pc' = "suspended"
            /\ UNCHANGED err

\* the first next() of the generator: lines 45-59, then the loop
Start ==
    /\ pc = "created"
    /\ UNCHANGED <<increased, decreased, prev>>
    /\ IF ~KeyInFirstMetadata(table)
       THEN /\ Raise(MissingKeyError)
            /\ UNCHANGED <<table, locals>>
       ELSE IF PredicateRaises(table)
       THEN /\ Raise(PredicateError)
            /\ UNCHANGED <<table, locals>>
       ELSE LET fi == IncFilter(table)
                fd == DecFilter(fi.self)
                filtered == [inc_t |-> fi.ret, dec_t |-> fd.ret]
                ids == IdsInCommon(fi.ret, fd.ret)
            IN /\ table' = fd.self
               /\ IF is_empty(fi.ret)
                  THEN /\ Raise(EmptyIncreasedError)
                       /\ locals' = filtered
                  ELSE IF is_empty(fd.ret)
                  THEN /\ Raise(EmptyDecreasedError)
                       /\ locals' = filtered
                  ELSE /\ locals' = [inc_t |-> fi.ret, dec_t |-> fd.ret,
                                     ids_in_common |-> ids]
                       /\ LoopStep(fi.ret, fd.ret, ids)

\* a later next() of the generator: resumes after the yield
Resume ==
    /\ pc = "suspended"
    /\ LoopStep(locals.inc_t, locals.dec_t, todo)
    /\ UNCHANGED <<table, increased, decreased, locals, prev>>

\* the consumer abandons the generator (close, or dropping the reference)
Close ==
    /\ pc \in {"created", "suspended"}
    /\ pc' = "closed"
    /\ UNCHANGED <<table, increased, decreased, locals, todo, out, err, prev>>

Next == Call \/ Start \/ Resume \/ Close

Spec == Init /\ [][Next]_vars

\* ---- the groups and counts, read off the input table -------------------
KeyOnAll == \A o \in Obs : table.md[o].has
KeyOnNone == \A o \in Obs : ~table.md[o].has

Matches(o, group) == table.md[o].has /\ (table.md[o].val \cap group) # {}
IncObs == {o \in Obs : Matches(o, increased)}
DecObs == {o \in Obs : Matches(o, decreased)}
OverlapObs == IncObs \cap DecObs

GroupSum(group, s) == SumOver([o \in group |-> table.data[o][s]], group)
IncCount(s) == GroupSum(IncObs, s)
DecCount(s) == GroupSum(DecObs, s)

\* the generator's body has run, at least up to its first yield or raise
Advanced == pc \in {"suspended", "done", "raised"}

\* score is log(a / b), for b # 0
IsLogOf(score, a, b) ==
    IF a = 0 THEN score = NegInf
    ELSE /\ score.kind = "ln"
         /\ score.num * b = score.den * a

\* ---- claims --------------------------------------------------------------

\* C1: when no observation's metadata has the key, the generator fails with
\* the Missing-Key error, whatever increased and decreased contain; the
\* Missing-Key error comes before any Empty-Group error.
C1_MissingKey ==
    (KeyOnNone /\ Advanced) =>
        (pc = "raised" /\ err = MissingKeyError /\ out = <<>>)

C1_Witness ==
    /\ KeyOnNone
    /\ pc = "raised"
    /\ err = MissingKeyError
    /\ increased # {}
    /\ decreased = {}

\* C2: with the key present on every observation: no observation matching
\* increased gives the Empty-Group error of the increased group, whether or
\* not decreased matches; a match for increased and none for decreased gives
\* the Empty-Group error of the decreased group; a match for both gives no
\* error.
C2_EmptyGroup ==
    (KeyOnAll /\ Advanced) =>
        /\ IncObs = {} => (pc = "raised" /\ err = EmptyIncreasedError)
        /\ (IncObs # {} /\ DecObs = {}) =>
               (pc = "raised" /\ err = EmptyDecreasedError)
        /\ (IncObs # {} /\ DecObs # {}) => (pc # "raised" /\ err = None)

C2_Witness ==
    /\ KeyOnAll
    /\ IncObs = {}
    /\ DecObs # {}
    /\ pc = "raised"
    /\ err = EmptyIncreasedError

\* C3: a fully consumed sequence holds exactly one entry for each sample of
\* the input table, which are the samples of both filtered tables, and no
\* other entry; samples that are zero in both groups are included.
C3_OneEntryPerSample ==
    pc = "done" =>
        /\ \A s \in Samples :
              Cardinality({i \in 1..Len(out) : out[i].id = s}) = 1
        /\ Len(out) = Cardinality(Samples)
        /\ locals.inc_t.samples \cap locals.dec_t.samples = Samples
        /\ todo = {}

C3_Witness ==
    /\ pc = "done"
    /\ Len(out) = Cardinality(Samples)
    /\ \E s \in Samples : IncCount(s) = 0 /\ DecCount(s) = 0
    /\ \E s \in Samples : IncCount(s) # 0 /\ DecCount(s) # 0

\* C4: an emitted score is nan if and only if the sample's sum over the
\* decreased rows is 0, whether the sum over the increased rows is 0 or not.
C4_NaNIffDecZero ==
    \A i \in 1..Len(out) :
        (out[i].score = NaN) <=> (DecCount(out[i].id) = 0)

C4_Witness ==
    /\ \E i \in 1..Len(out) :
          out[i].score = NaN /\ IncCount(out[i].id) > 0
    /\ \E i \in 1..Len(out) :
          out[i].score = NaN /\ IncCount(out[i].id) = 0

\* C5: an emitted score of a sample with dec_count # 0 is
\* log(inc_count / dec_count), the sums being over exactly the observations
\* matching increased and decreased; with inc_count = 0 it is -infinity.
C5_LogRatio ==
    \A i \in 1..Len(out) :
        DecCount(out[i].id) # 0 =>
            IsLogOf(out[i].score, IncCount(out[i].id), DecCount(out[i].id))

C5_Witness ==
    /\ \E i \in 1..Len(out) :
          out[i].score = [kind |-> "ln", num |-> 1, den |-> 2]
    /\ \E i \in 1..Len(out) :
          out[i].score = NegInf /\ DecCount(out[i].id) # 0

\* C6: when the generator raises, no entry has been emitted before.
C6_FailFast == (pc = "raised" \/ err # None) => out = <<>>

C6_Witness ==
    /\ pc = "raised"
    /\ err = EmptyDecreasedError
    /\ out = <<>>
    /\ \E s \in Samples : IncCount(s) > 0

\* C7: no step of compute_index changes the input table, whether the call
\* ends in an error, is fully consumed or is abandoned part-way.
C7_TableUnchanged == [][table' = table]_vars

C7_Witness ==
    /\ pc = "closed"
    /\ Len(out) = 1
    /\ todo # {}
    /\ locals.inc_t.obs # table.obs
    /\ locals.dec_t.obs # table.obs

\* C8: two fully consumed calls with the same table, increased, decreased
\* and key give the same set of (sample_id, score) pairs.
C8_SameResultSets ==
    (pc = "done" /\ prev # <<>>) => Range(out) = Range(prev[1])

C8_Witness ==
    /\ pc = "done"
    /\ prev # <<>>
    /\ out # prev[1]
    /\ \E i \in 1..Len(out) : out[i].score = NaN
    /\ \E i \in 1..Len(out) : out[i].score.kind = "ln"

\* C9 as stated: validation, the two filters and the intersection have run
\* when compute_index has been called and the consumer has not yet advanced.
C9_EagerAtCall ==
    pc = "created" =>
        {"inc_t", "dec_t", "ids_in_common"} \subseteq DOMAIN locals

\* C9 amended: calling compute_index runs nothing; validation, the two
\* filters and the intersection run at the consumer's first advance, before
\* the first entry; each advance computes one entry, so a consumer that
\* never advances causes no work and one that abandons early causes only the
\* filtering, the intersection and the entries it consumed.
C9_LazyUntilFirstAdvance ==
    /\ (pc = "created" \/ (pc = "closed" /\ out = <<>>)) =>
           (DOMAIN locals = {} /\ err = None /\ out = <<>>)
    /\ pc \in {"suspended", "done"} =>
           /\ DOMAIN locals = {"inc_t", "dec_t", "ids_in_common"}
           /\ Len(out) + Cardinality(todo) =
                  Cardinality(locals.ids_in_common)
    /\ (pc = "closed" /\ out # <<>>) =>
           Len(out) + Cardinality(todo) = Cardinality(locals.ids_in_common)

C9_Witness ==
    /\ pc = "closed"
    /\ Len(out) = 1
    /\ todo # {}
    /\ DOMAIN locals = {"inc_t", "dec_t", "ids_in_common"}

\* C10: an observation matching both increased and decreased is kept in both
\* filtered tables, its abundance is added to both counts of every sample,
\* and the overlap raises no error.
C10_OverlapCountedTwice ==
    (KeyOnAll /\ OverlapObs # {} /\ Advanced) =>
        /\ pc # "raised"
        /\ err = None
        /\ OverlapObs \subseteq locals.inc_t.obs
        /\ OverlapObs \subseteq locals.dec_t.obs
        /\ \A i \in 1..Len(out) :
              LET s == out[i].id
                  both == GroupSum(OverlapObs, s)
                  inc == both + GroupSum(IncObs \ OverlapObs, s)
                  dec == both + GroupSum(DecObs \ OverlapObs, s)
              IN IF dec = 0 THEN out[i].score = NaN
                 ELSE IsLogOf(out[i].score, inc, dec)

C10_Witness ==
    /\ KeyOnAll
    /\ pc = "done"
    /\ OverlapObs # {}
    /\ IncObs # DecObs
    /\ \E i \in 1..Len(out) :
          /\ GroupSum(OverlapObs, out[i].id) > 0
          /\ out[i].score.kind = "ln"
          /\ out[i].score.num # out[i].score.den

TypeOK ==
    /\ pc \in {"idle", "created", "suspended", "done", "raised", "closed"}
    /\ table \in Tables
====
